---- MODULE Spec2Model ----
(***************************************************************************)
(* TicSync multi-device orchestration: the cleanup entry point             *)
(* (src/ticsync/ticsync_cleanup.py) and the recording entry point          *)
(* (src/ticsync/ticsync_recording.py), modelled as step machines over a    *)
(* small population of devices.                                            *)
(***************************************************************************)
EXTENDS Integers, Sequences, FiniteSets, TLC

\* ------------------------------------------------------------------ bounds
MaxDevices == 3
MaxPlugEvents == 1
MaxConnects == 2
MaxFnClients == 1
MaxRuns == 2
MaxWaits == 2
MaxInterrupts == 2

\* ------------------------------------------------------- program constants
MaxRetries == 10
NoSerial == 0
NoTotal == -1

Serials == 1..MaxDevices

\* ------------------------------------------------------------ Wi-Fi names
NoNetwork == <<"none", NoSerial>>
HomeSsid == <<"home", NoSerial>>
HotspotSsid(s) == <<"hotspot", s>>

\* --------------------------------------------------------------- helpers
Range(q) == {q[i] : i \in 1..Len(q)}
Distinct(q) == \A i, j \in 1..Len(q) : i # j => q[i] # q[j]
SeqsUpTo(S, n) == UNION {[1..k -> S] : k \in 0..n}
Listings == {q \in SeqsUpTo(Serials, MaxDevices) : Distinct(q)}
RECURSIVE Without(_, _)
Without(q, x) ==
    IF q = <<>> THEN <<>>
    ELSE IF Head(q) = x THEN Without(Tail(q), x)
    ELSE <<Head(q)>> \o Without(Tail(q), x)
RECURSIVE Count(_, _)
Count(q, x) ==
    IF q = <<>> THEN 0
    ELSE (IF Head(q) = x THEN 1 ELSE 0) + Count(Tail(q), x)

\* ---------------------------------------------------------- device state
IdleDevice ==
    [recording |-> FALSE, rpc |-> FALSE, hotspot |-> FALSE, keepWifi |-> FALSE,
     wifiEnabled |-> TRUE, ssid |-> NoNetwork, saved |-> {}, stable |-> FALSE,
     mode |-> "none", profile |-> ""]

\* the SDK mutators, as the call sites use them
stop_recording(d) == [d EXCEPT !.recording = FALSE]
start_recording(d) == [d EXCEPT !.recording = TRUE]
keep_wifi_on(d, on) == [d EXCEPT !.keepWifi = on]
forget_wifi(d, ssid) ==
    [d EXCEPT !.saved = @ \ {ssid},
              !.ssid = IF @ = ssid THEN NoNetwork ELSE @]
set_dds_rpc_enabled(d, on) == [d EXCEPT !.rpc = on]
set_device_hotspot_status(d, on) == [d EXCEPT !.hotspot = on]
connect_wifi(d, ssid) ==
    [d EXCEPT !.wifiEnabled = TRUE, !.ssid = ssid, !.saved = {ssid}]

\* connect_and_stop_recording, the part after connect()
connect_without_stopping(d) == d
stop_if_recording(d) == IF d.recording THEN stop_recording(d) ELSE d

cleanup_hotspot_on_any_network(d, server_hotspot_ssid) ==
    forget_wifi(keep_wifi_on(d, FALSE), server_hotspot_ssid)
cleanup_hotspot(d, server_hotspot_ssid) ==
    IF d.ssid = server_hotspot_ssid
    THEN forget_wifi(keep_wifi_on(d, FALSE), server_hotspot_ssid)
    ELSE d

server_device_cleanup_toggling(d) ==
    LET d1 == IF d.rpc THEN set_dds_rpc_enabled(d, FALSE) ELSE d
    IN  set_device_hotspot_status(d1, ~d1.hotspot)
server_device_cleanup(d) ==
    LET d1 == IF d.rpc THEN set_dds_rpc_enabled(d, FALSE) ELSE d
    IN  set_device_hotspot_status(d1, FALSE)

generic_cleanup_keeping_wifi(d) ==
    LET d1 == IF d.recording THEN stop_recording(d) ELSE d
        d3 == IF d1.rpc THEN set_dds_rpc_enabled(d1, FALSE) ELSE d1
    IN  set_device_hotspot_status(d3, FALSE)
generic_cleanup(d) ==
    LET d1 == IF d.recording THEN stop_recording(d) ELSE d
        d2 == keep_wifi_on(d1, FALSE)
        d3 == IF d2.rpc THEN set_dds_rpc_enabled(d2, FALSE) ELSE d2
    IN  set_device_hotspot_status(d3, FALSE)

RECURSIVE client_devices_cleanup(_, _, _)
client_devices_cleanup(devs, items, ssid) ==
    IF items = <<>> THEN devs
    ELSE client_devices_cleanup(
             [devs EXCEPT ![Head(items)] = cleanup_hotspot(@, ssid)],
             Tail(items), ssid)

\* main's known-role branch, lines 211-215: the hotspot SSID is read from the
\* server, the clients are cleaned against it, then the server
KnownRoleCleanup(devs, server, clients) ==
    LET ssid == HotspotSsid(server)
        d1 == client_devices_cleanup(devs, clients, ssid)
    IN  [d1 EXCEPT ![server] = server_device_cleanup(@)]

\* main's generic branch, lines 204-209, over a listing
RECURSIVE GenericCleanupAll(_, _)
GenericCleanupAll(devs, listing) ==
    IF listing = <<>> THEN devs
    ELSE GenericCleanupAll([devs EXCEPT ![Head(listing)] = generic_cleanup(@)],
                           Tail(listing))

\* ------------------------------------------------------------------ state
VARIABLES
    pc,                 \* position of the running entry point
    error,              \* the exception that ended the run, "" when none
    args,               \* the parsed command line
    usb,                \* device_client.usb_devices: attached serials, in listing order
    plugs,              \* attach/detach events so far
    dev,                \* per-device state as the SDK reports it
    log,                \* device-link calls issued so far, in order
    devices,            \* detect_and_reconnect_devices' local `devices`
    main_devices,       \* main's local `devices`, read for generic cleanup
    server_serial, client_serials,
    detected_devices, retries, i,
    server_device, client_devices, reconnected_devices,
    server_hotspot_ssid,
    rec_args,           \* the parsed command line of ticsync_recording
    client_plan,        \* client_serial_and_profile_names
    server_profile_name, profile_name,
    printed_profile,    \* the profile named in the "Starting to record" line
    fn_path, fn_runs, fn_input, fn_first,  \* the cleanup functions on their own
    recordings,         \* the recording each device holds in /sdcard/recording
    ticsync_server_files, ticsync_client_files,
    date_sorted_ticsync_server_recordings,
    fm_result,          \* what the last download_files call returned
    interrupts          \* entry points the operator has interrupted so far

vars == <<pc, error, args, usb, plugs, dev, log, devices, main_devices, server_serial,
          client_serials, detected_devices, retries, i, server_device,
          client_devices, reconnected_devices, server_hotspot_ssid,
          rec_args, client_plan, server_profile_name, profile_name,
          printed_profile, fn_path, fn_runs, fn_input, fn_first, recordings,
          ticsync_server_files, ticsync_client_files,
          date_sorted_ticsync_server_recordings, fm_result, interrupts>>

detectVars == <<devices, detected_devices, retries>>
planVars == <<server_serial, client_serials>>
rcVars == <<server_device, client_devices, reconnected_devices>>
envVars == <<usb, plugs>>
recVars == <<rec_args, client_plan, server_profile_name, profile_name,
             printed_profile>>
fnVars == <<fn_path, fn_runs, fn_input, fn_first, recordings,
            ticsync_server_files, ticsync_client_files,
            date_sorted_ticsync_server_recordings, fm_result>>
otherVars == <<recVars, fnVars, interrupts>>

Attached == Range(usb)
Ev(op, s) == [op |-> op, serial |-> s]
Connects(s) == Cardinality({k \in 1..Len(log) :
                   log[k].serial = s /\ log[k].op \in
                       {"detect_connect", "reconnect_connect", "generic_connect"}})
RaiseSwallowed(kind) == pc' = pc /\ error' = kind
Raise(kind) == pc' = "raised" /\ error' = kind
OpsOf(op) == SelectSeq(log, LAMBDA e : e.op = op)

\* connect(): the devices a connect to `serial` can open a session to. A
\* serial names its own device, reachable while attached; with no serial
\* (None) the SDK's choice is not fixed by the source: any attached device.
ConnectTargets(serial) ==
    IF serial \in Serials THEN {serial} \cap Attached ELSE Attached
\* whether connect() can raise instead
ConnectCanFail(serial) == serial \notin Attached

\* ------------------------------------------------ ticsync_cleanup.main
\* argument validation and dispatch, main lines 179-197
ArgsConsistent(a) ==
    /\ \/ (a.server_serial = NoSerial /\ a.client_serials = <<>>)
       \/ (a.server_serial # NoSerial /\ a.client_serials # <<>>)
    /\ \/ (a.total_num_devices # NoTotal /\ a.server_serial = NoSerial)
       \/ (a.total_num_devices = NoTotal /\ a.server_serial # NoSerial)
Truthy(n) == n # NoTotal /\ n # 0

MainStart ==
    /\ pc = "main"
    /\ IF ~ArgsConsistent(args)
       THEN Raise("AssertionError") /\ UNCHANGED planVars
       ELSE IF Truthy(args.total_num_devices)
       THEN pc' = "detect" /\ UNCHANGED <<error, planVars>>
       ELSE IF args.client_serials = <<>>
       THEN Raise("TypeError") /\ UNCHANGED planVars
       ELSE /\ pc' = "reconnect"
            /\ server_serial' = args.server_serial
            /\ client_serials' = args.client_serials[1]
            /\ UNCHANGED error
    /\ UNCHANGED <<otherVars, args, envVars, dev, log, detectVars, i, rcVars,
                   server_hotspot_ssid, main_devices>>

\* ----------------------------------------- detect_and_reconnect_devices
\* the assert on the listing, lines 66-68
CountAtMost(n, total) == n <= total
CountMatches(n, total) == n = total
\* the loop condition and the early break, lines 74-76
DetectBreaksLate(tries, nclients, total) ==
    tries < MaxRetries /\ nclients # total
DetectContinues(tries, nclients, total) ==
    tries < MaxRetries /\ nclients + 1 # total
\* the backoff, lines 77-78
SleepsBeforePass(tries) == tries > 0
\* the classification, line 87
IsServerInverted(d) == ~d.rpc
IsServer(d) == d.rpc
\* the timeout test after the loop, line 92
DetectNeverTimesOut(tries) == tries > MaxRetries
DetectTimedOut(tries) == tries = MaxRetries

DetectList ==
    /\ pc = "detect"
    /\ server_serial' = NoSerial
    /\ client_serials' = <<>>
    /\ devices' = usb
    /\ retries' = 0
    /\ detected_devices' = {}
    /\ IF CountMatches(Len(usb), args.total_num_devices)
       THEN pc' = "detect_while" /\ UNCHANGED error
       ELSE Raise("AssertionError")
    /\ UNCHANGED <<otherVars, args, envVars, dev, log, i, rcVars, server_hotspot_ssid,
                   main_devices>>

DetectWhile ==
    /\ pc = "detect_while"
    /\ IF DetectContinues(retries, Len(client_serials), args.total_num_devices)
       THEN /\ pc' = "detect_for"
            /\ i' = 1
            /\ log' = IF SleepsBeforePass(retries)
                       THEN Append(log, Ev("sleep", NoSerial)) ELSE log
       ELSE pc' = "detect_after" /\ UNCHANGED <<i, log>>
    /\ UNCHANGED <<otherVars, error, args, envVars, dev, detectVars, planVars, rcVars,
                   server_hotspot_ssid, main_devices>>

\* index of the next listed serial, from k on, that is not in `seen`
RECURSIVE NextUnseen(_, _, _)
NextUnseen(q, k, seen) ==
    IF k > Len(q) \/ q[k] \notin seen THEN k ELSE NextUnseen(q, k + 1, seen)

DetectFor ==
    /\ pc = "detect_for"
    /\ LET k == NextUnseen(devices, i, detected_devices) IN
       IF k > Len(devices)
       THEN /\ retries' = retries + 1
            /\ pc' = "detect_while"
            /\ UNCHANGED <<error, dev, log, i, devices, detected_devices, planVars>>
       ELSE LET serial == devices[k] IN
            \/ /\ ConnectCanFail(serial)
               /\ Raise("ConnectError")
               /\ UNCHANGED <<dev, log, i, detectVars, planVars>>
            \/ /\ serial \in ConnectTargets(serial)
               /\ Connects(serial) < MaxConnects
               /\ log' = Append(log, Ev("detect_connect", serial))
               /\ detected_devices' = detected_devices \cup {serial}
               /\ IF IsServer(dev[serial])
                  THEN server_serial' = serial /\ UNCHANGED client_serials
                  ELSE client_serials' = Append(client_serials, serial)
                       /\ UNCHANGED server_serial
               /\ i' = k + 1
               /\ UNCHANGED <<pc, error, dev, devices, retries>>
    /\ UNCHANGED <<otherVars, args, envVars, rcVars, server_hotspot_ssid, main_devices>>

DetectAfter ==
    /\ pc = "detect_after"
    /\ IF DetectTimedOut(retries)
       THEN /\ pc' = "cleanup"
            /\ server_device' = NoSerial
            /\ client_devices' = <<>>
            /\ UNCHANGED reconnected_devices
       ELSE pc' = "reconnect" /\ UNCHANGED rcVars
    /\ UNCHANGED <<otherVars, error, args, envVars, dev, log, detectVars, planVars, i,
                   server_hotspot_ssid, main_devices>>

\* ---------------------------------------------------- reconnect_devices
\* connect_and_stop_recording(serial) reaching device t
ConnectAndStop(serial, t) ==
    /\ t \in ConnectTargets(serial)
    /\ Connects(t) < MaxConnects
    /\ dev' = [dev EXCEPT ![t] = stop_if_recording(@)]
    /\ log' = log \o <<Ev("reconnect_connect", t)>>
                  \o (IF dev[t].recording THEN <<Ev("stop_recording", t)>>
                      ELSE <<>>)

\* client_devices[serial] = handle, keys kept in insertion order
DictPutFront(keys, serial) ==
    IF serial \in Range(keys) THEN keys ELSE <<serial>> \o keys
DictPut(keys, serial) ==
    IF serial \in Range(keys) THEN keys ELSE Append(keys, serial)

ReconnectEnter ==
    /\ pc = "reconnect"
    /\ server_device' = NoSerial
    /\ client_devices' = <<>>
    /\ reconnected_devices' = {}
    /\ pc' = "rc_while"
    /\ UNCHANGED <<otherVars, error, args, envVars, dev, log, detectVars, planVars, i,
                   server_hotspot_ssid, main_devices>>

\* reconnected_devices.add(serial), line 46
MarkEveryClient(done, serial) == done \cup Range(client_serials)
MarkReconnected(done, serial) == done \cup {serial}

ReconnectDone(done, clients) == Cardinality(done) = Len(clients) + 1

ReconnectWhile ==
    /\ pc = "rc_while"
    /\ IF ~ReconnectDone(reconnected_devices, client_serials)
       THEN pc' = "rc_for" /\ i' = 1
       ELSE pc' = "cleanup" /\ UNCHANGED i
    /\ UNCHANGED <<otherVars, error, args, envVars, dev, log, detectVars, planVars,
                   rcVars, server_hotspot_ssid, main_devices>>

ReconnectFor ==
    /\ pc = "rc_for"
    /\ LET k == NextUnseen(client_serials, i, reconnected_devices) IN
       IF k > Len(client_serials)
       THEN /\ pc' = "rc_server"
            /\ UNCHANGED <<error, dev, log, i, rcVars>>
       ELSE LET serial == client_serials[k] IN
            \/ /\ ConnectCanFail(serial)
               /\ Raise("ConnectError")
               /\ UNCHANGED <<dev, log, i, rcVars>>
            \/ /\ ConnectAndStop(serial, serial)
               /\ client_devices' = DictPut(client_devices, serial)
               /\ reconnected_devices' = MarkReconnected(reconnected_devices, serial)
               /\ i' = k + 1
               /\ UNCHANGED <<pc, error, server_device>>
    /\ UNCHANGED <<otherVars, args, envVars, detectVars, planVars, server_hotspot_ssid,
                   main_devices>>

\* the guard before the server connect, line 48
ClientsAllReconnected(done, clients) == Cardinality(done) = Len(clients)

ReconnectServer ==
    /\ pc = "rc_server"
    /\ IF ~ClientsAllReconnected(reconnected_devices, client_serials)
       THEN pc' = "rc_while" /\ UNCHANGED <<error, dev, log, rcVars>>
       ELSE \/ /\ ConnectCanFail(server_serial)
               /\ Raise("ConnectError")
               /\ UNCHANGED <<dev, log, rcVars>>
            \/ \E t \in Serials :
                  /\ ConnectAndStop(server_serial, t)
                  /\ server_device' = t
                  /\ reconnected_devices' =
                         reconnected_devices \cup {server_serial}
                  /\ pc' = "rc_while"
                  /\ UNCHANGED <<error, client_devices>>
    /\ UNCHANGED <<otherVars, args, envVars, detectVars, planVars, i,
                   server_hotspot_ssid, main_devices>>

\* ---------------------------------------- ticsync_cleanup.main, cleanup
\* the listing the generic path walks, line 204
StaleListing == devices
GenericListing == usb

CleanupStart ==
    /\ pc = "cleanup"
    /\ IF server_device = NoSerial
       THEN /\ main_devices' = GenericListing
            /\ i' = 1
            /\ pc' = "generic_for"
            /\ UNCHANGED <<error, server_hotspot_ssid>>
       ELSE IF server_device \notin Attached
       THEN Raise("DeviceError")
            /\ UNCHANGED <<main_devices, i, server_hotspot_ssid>>
       ELSE /\ server_hotspot_ssid' = HotspotSsid(server_device)
            /\ i' = 1
            /\ pc' = "known_clients"
            /\ UNCHANGED <<error, main_devices>>
    /\ UNCHANGED <<otherVars, args, envVars, dev, log, detectVars, planVars, rcVars>>

GenericFor ==
    /\ pc = "generic_for"
    /\ IF i > Len(main_devices)
       THEN pc' = "done" /\ UNCHANGED <<error, dev, log, i>>
       ELSE LET serial == main_devices[i] IN
            \/ /\ ConnectCanFail(serial)
               /\ Raise("ConnectError")
               /\ UNCHANGED <<dev, log, i>>
            \/ /\ serial \in ConnectTargets(serial)
               /\ Connects(serial) < MaxConnects
               /\ dev' = [dev EXCEPT ![serial] = generic_cleanup(@)]
               /\ log' = log \o <<Ev("generic_connect", serial),
                                  Ev("generic_cleanup", serial)>>
               /\ i' = i + 1
               /\ UNCHANGED <<pc, error>>
    /\ UNCHANGED <<otherVars, args, envVars, detectVars, planVars, rcVars,
                   server_hotspot_ssid, main_devices>>

\* client_devices_cleanup returns when its loop over the items is exhausted
ClientsCleanedEarly(k, n) == k > n \/ k > 1
ClientsCleaned(k, n) == k > n

KnownClients ==
    /\ pc = "known_clients"
    /\ IF ClientsCleaned(i, Len(client_devices))
       THEN pc' = "known_server" /\ UNCHANGED <<error, dev, log, i>>
       ELSE LET serial == client_devices[i] IN
            IF serial \notin Attached
            THEN Raise("DeviceError") /\ UNCHANGED <<dev, log, i>>
            ELSE /\ dev' = [dev EXCEPT ![serial] =
                                cleanup_hotspot(@, server_hotspot_ssid)]
                 /\ log' = Append(log, Ev("cleanup_hotspot", serial))
                 /\ i' = i + 1
                 /\ UNCHANGED <<pc, error>>
    /\ UNCHANGED <<otherVars, args, envVars, detectVars, planVars, rcVars,
                   server_hotspot_ssid, main_devices>>

KnownServer ==
    /\ pc = "known_server"
    /\ IF server_device \notin Attached
       THEN Raise("DeviceError") /\ UNCHANGED <<dev, log>>
       ELSE /\ dev' = [dev EXCEPT ![server_device] = server_device_cleanup(@)]
            /\ log' = Append(log, Ev("server_device_cleanup", server_device))
            /\ pc' = "done"
            /\ UNCHANGED error
    /\ UNCHANGED <<otherVars, args, envVars, detectVars, planVars, rcVars, i,
                   server_hotspot_ssid, main_devices>>

\* ------------------------------------------------------------ environment
\* Attach and detach events reach the program only through its device-link
\* calls (usb_devices, connect, reads and commands on a handle); an event is
\* placed right before the call that can observe it.
AtDeviceLink ==
    \/ pc \in {"detect", "cleanup", "known_server"}
    \/ pc = "detect_for"
          /\ NextUnseen(devices, i, detected_devices) <= Len(devices)
    \/ pc = "rc_for"
          /\ NextUnseen(client_serials, i, reconnected_devices)
                 <= Len(client_serials)
    \/ pc = "rc_server"
          /\ ClientsAllReconnected(reconnected_devices, client_serials)
    \/ pc = "generic_for" /\ i <= Len(main_devices)
    \/ pc = "known_clients" /\ i <= Len(client_devices)
    \/ pc = "rec_connect_server"
    \/ pc = "rec_clients" /\ i <= Len(client_plan)

Plug ==
    /\ AtDeviceLink
    /\ plugs < MaxPlugEvents
    /\ \E s \in Serials \ Attached : usb' = Append(usb, s)
    /\ plugs' = plugs + 1
    /\ UNCHANGED <<otherVars, pc, error, args, dev, log, detectVars, planVars, i, rcVars,
                   server_hotspot_ssid, main_devices>>

Unplug ==
    /\ AtDeviceLink
    /\ plugs < MaxPlugEvents
    /\ \E s \in Attached : usb' = Without(usb, s)
    /\ plugs' = plugs + 1
    /\ UNCHANGED <<otherVars, pc, error, args, dev, log, detectVars, planVars, i, rcVars,
                   server_hotspot_ssid, main_devices>>

\* ------------------------------------------------------------------ Spec
InferArgs ==
    {[server_serial |-> NoSerial, client_serials |-> <<>>,
      total_num_devices |-> n] : n \in 1..MaxDevices}
ClientGroups == SeqsUpTo(Serials, MaxDevices - 1) \ {<<>>}
\* --clients is action="append" with nargs="+": one group per option given
ExplicitArgs ==
    {[server_serial |-> s, client_serials |-> <<g>>,
      total_num_devices |-> NoTotal] : s \in Serials, g \in ClientGroups}
    \cup {[server_serial |-> t[1], client_serials |-> <<(<<t[2]>>), (<<t[3]>>)>>,
           total_num_devices |-> NoTotal] :
               t \in {q \in [1..3 -> Serials] : Distinct(q)}}
ConflictArgs ==
    {[server_serial |-> s, client_serials |-> c, total_num_devices |-> n] :
        s \in {NoSerial, MaxDevices}, c \in {<<>>, <<(<<MaxDevices>>)>>},
        n \in {NoTotal, 0, MaxDevices}} \ (InferArgs \cup ExplicitArgs)

\* the states devices are found in when cleanup starts: untouched, or left
\* mid-session as the server or as a client of the lowest-numbered server
LiveServer ==
    [IdleDevice EXCEPT !.rpc = TRUE, !.hotspot = TRUE, !.recording = TRUE]
LiveClient(ssid) ==
    [IdleDevice EXCEPT !.recording = TRUE, !.keepWifi = TRUE, !.ssid = ssid,
                       !.saved = {ssid} \ {NoNetwork}]
Min(S) == CHOOSE x \in S : \A y \in S : x <= y
SessionDevices(kind) ==
    LET servers == {s \in Serials : kind[s] = "server"}
        ssid == IF servers = {} THEN NoNetwork ELSE HotspotSsid(Min(servers))
    IN  [s \in Serials |->
            CASE kind[s] = "server" -> LiveServer
              [] kind[s] = "client" -> LiveClient(ssid)
              [] OTHER -> IdleDevice]
SpecDevs == {SessionDevices(k) : k \in [Serials -> {"idle", "server", "client"}]}
AllAttached == [k \in 1..MaxDevices |-> k]
\* an explicit plan: the devices as the session of that plan left them, the
\* same with the clients out of the hotspot's reach, or all of them clean
PlanKinds(a) ==
    [s \in Serials |->
        IF s = a.server_serial THEN "server"
        ELSE IF \E k \in DOMAIN a.client_serials : s \in Range(a.client_serials[k])
        THEN "client" ELSE "idle"]
\* clients that kept the hotspot as a saved network but are off it now
LinkLost(f) ==
    [s \in Serials |->
        IF f[s].keepWifi THEN [f[s] EXCEPT !.ssid = NoNetwork] ELSE f[s]]
PlanDevs(a) ==
    {SessionDevices(PlanKinds(a)), LinkLost(SessionDevices(PlanKinds(a))),
     [s \in Serials |-> IdleDevice]}

\* ticsync_file_manager's module-level dictionaries, empty at import
\* (lines 27-29); a key that is absent maps to NoSerial or to no entries
Sessions == {"sessA", "sessB"}
NoFiles ==
    [server |-> [n \in Sessions |-> NoSerial], client |-> [n \in Sessions |-> <<>>]]
FmIdle ==
    /\ recordings = [s \in Serials |-> [session |-> "", mode |-> ""]]
    /\ ticsync_server_files = NoFiles.server
    /\ ticsync_client_files = NoFiles.client
    /\ date_sorted_ticsync_server_recordings = NoFiles.server
    /\ fm_result = ""

InitLocals ==
    /\ error = ""
    /\ interrupts = 0
    /\ plugs = 0
    /\ log = <<>>
    /\ devices = <<>>
    /\ main_devices = <<>>
    /\ server_serial = NoSerial
    /\ client_serials = <<>>
    /\ detected_devices = {}
    /\ retries = 0
    /\ i = 1
    /\ server_device = NoSerial
    /\ client_devices = <<>>
    /\ reconnected_devices = {}
    /\ server_hotspot_ssid = NoNetwork

NoRecArgs ==
    [server |-> <<>>, clients |-> <<>>, total_num_devices |-> NoTotal,
     profile |-> ""]
InitOther ==
    /\ rec_args = NoRecArgs
    /\ client_plan = <<>>
    /\ server_profile_name = ""
    /\ profile_name = ""
    /\ printed_profile = ""
    /\ fn_path = ""
    /\ fn_runs = 0
    /\ fn_input = <<>>
    /\ fn_first = <<>>
    /\ FmIdle

Init ==
    /\ pc = "main"
    /\ InitLocals
    /\ InitOther
    /\ \/ args \in InferArgs /\ usb \in Listings /\ dev \in SpecDevs
       \/ /\ args \in ExplicitArgs \cup ConflictArgs
          /\ usb = AllAttached
          /\ dev \in PlanDevs(args)

Next ==
    \/ MainStart
    \/ DetectList
    \/ DetectWhile
    \/ DetectFor
    \/ DetectAfter
    \/ ReconnectEnter
    \/ ReconnectWhile
    \/ ReconnectFor
    \/ ReconnectServer
    \/ CleanupStart
    \/ GenericFor
    \/ KnownClients
    \/ KnownServer
    \/ Plug
    \/ Unplug

Spec == Init /\ [][Next]_vars

\* ----------------------------------------------- ticsync_recording: plan
\* A --server/--client group is [serial, profile]; profile "" stands for a
\* group given without its second word. An option not given is <<>> (None).
Group(s, p) == [serial |-> s, profile |-> p]
NoGroup == Group(NoSerial, "")
PlanError(kind) == [error |-> kind, server |-> NoGroup, clients |-> <<>>]

\* the assert on total_num_devices, main lines 135-137
TotalAccepted(a) == a.total_num_devices = NoTotal \/ a.total_num_devices > 1

\* the two asserts of get_device_serial_and_profile_names, lines 31-41
PlanArgsConsistent(a) ==
    /\ \/ (a.server = <<>> /\ a.clients = <<>>)
       \/ (a.server # <<>> /\ a.clients # <<>>)
    /\ \/ (a.total_num_devices = NoTotal /\ a.profile = "")
       \/ (a.total_num_devices # NoTotal /\ a.profile # "")

get_plan_rejecting_both_forms(a, listing) ==
    IF ~PlanArgsConsistent(a) THEN PlanError("AssertionError")
    ELSE IF a.server # <<>> /\ a.total_num_devices # NoTotal
    THEN PlanError("AssertionError")
    ELSE IF a.server # <<>> /\ a.clients # <<>>
    THEN IF Len(a.server) # 1 THEN PlanError("AssertionError")
         ELSE [error |-> "", server |-> a.server[1], clients |-> a.clients]
    ELSE IF a.total_num_devices # NoTotal /\ Len(listing) = a.total_num_devices
    THEN [error |-> "",
          server |-> Group(listing[1], a.profile),
          clients |-> [k \in 1..(Len(listing) - 1) |->
                          Group(listing[k + 1], a.profile)]]
    ELSE PlanError("AssertionError")
get_plan_listing_server_as_client(a, listing) ==
    IF ~PlanArgsConsistent(a) THEN PlanError("AssertionError")
    ELSE IF a.server # <<>> /\ a.clients # <<>>
    THEN IF Len(a.server) # 1 THEN PlanError("AssertionError")
         ELSE [error |-> "", server |-> a.server[1], clients |-> a.clients]
    ELSE IF a.total_num_devices # NoTotal
    THEN IF Len(listing) # a.total_num_devices
         THEN PlanError("AssertionError")
         ELSE [error |-> "",
               server |-> Group(listing[1], a.profile),
               clients |-> [k \in 1..Len(listing) |->
                               Group(listing[k], a.profile)]]
    ELSE PlanError("TypeError")
get_device_serial_and_profile_names(a, listing) ==
    IF ~PlanArgsConsistent(a) THEN PlanError("AssertionError")
    ELSE IF a.server # <<>> /\ a.clients # <<>>
    THEN IF Len(a.server) # 1 THEN PlanError("AssertionError")
         ELSE [error |-> "", server |-> a.server[1], clients |-> a.clients]
    ELSE IF a.total_num_devices # NoTotal
    THEN IF Len(listing) # a.total_num_devices
         THEN PlanError("AssertionError")
         ELSE [error |-> "",
               server |-> Group(listing[1], a.profile),
               clients |-> [k \in 1..(Len(listing) - 1) |->
                               Group(listing[k + 1], a.profile)]]
    ELSE PlanError("TypeError")

\* main lines 135-147: validation, the plan, and its unpacking
RecMain ==
    /\ pc = "rec_main"
    /\ LET plan == get_device_serial_and_profile_names(rec_args, usb) IN
       IF ~TotalAccepted(rec_args)
       THEN Raise("AssertionError")
            /\ UNCHANGED <<server_serial, server_profile_name, client_plan>>
       ELSE IF plan.error # ""
       THEN Raise(plan.error)
            /\ UNCHANGED <<server_serial, server_profile_name, client_plan>>
       ELSE IF plan.server.profile = ""
       THEN Raise("IndexError")
            /\ server_serial' = plan.server.serial
            /\ UNCHANGED <<server_profile_name, client_plan>>
       ELSE /\ server_serial' = plan.server.serial
            /\ server_profile_name' = plan.server.profile
            /\ client_plan' = plan.clients
            /\ pc' = "rec_connect_server"
            /\ UNCHANGED error
    /\ UNCHANGED <<args, envVars, dev, log, detectVars, main_devices,
                   client_serials, i, rcVars, server_hotspot_ssid, rec_args,
                   profile_name, printed_profile, fnVars, interrupts>>

\* ---------------------------------------------- ticsync_recording: server
\* lines 149-152
RecConnectServer ==
    /\ pc = "rec_connect_server"
    /\ \/ /\ ConnectCanFail(server_serial)
          /\ Raise("ConnectError")
          /\ UNCHANGED <<log, server_device>>
       \/ /\ server_serial \in ConnectTargets(server_serial)
          /\ server_device' = server_serial
          /\ log' = Append(log, Ev("server_connect", server_serial))
          /\ pc' = "rec_server_setup"
          /\ UNCHANGED error
    /\ UNCHANGED <<otherVars, args, envVars, dev, detectVars, main_devices,
                   planVars, i, client_devices, reconnected_devices,
                   server_hotspot_ssid>>

\* lines 156-176: hotspot on, RPC on or a new session id, the hotspot's
\* credentials, the server's recording config
ServerSetUp(d, profile) ==
    LET h == set_device_hotspot_status(d, TRUE)
        r == IF ~h.rpc THEN set_dds_rpc_enabled(h, TRUE) ELSE h
    IN  [r EXCEPT !.profile = profile, !.mode = "server"]

\* the calls of lines 156-176, in the order they are issued
ServerSetupCallsNoSessionId(d, s) ==
    <<Ev("hotspot_on", s)>>
        \o (IF ~d.rpc THEN <<Ev("rpc_enable", s)>> ELSE <<>>)
        \o <<Ev("server_config", s)>>
ServerSetupCalls(d, s) ==
    <<Ev("hotspot_on", s),
      Ev(IF ~d.rpc THEN "rpc_enable" ELSE "rpc_new_session_id", s),
      Ev("server_config", s)>>

RecServerSetup ==
    /\ pc = "rec_server_setup"
    /\ dev' = [dev EXCEPT ![server_device] = ServerSetUp(@, server_profile_name)]
    /\ log' = log \o ServerSetupCalls(dev[server_device], server_device)
    /\ server_hotspot_ssid' = HotspotSsid(server_device)
    /\ client_devices' = <<>>
    /\ i' = 1
    /\ pc' = "rec_clients"
    /\ UNCHANGED <<otherVars, error, args, envVars, detectVars, main_devices,
                   planVars, server_device, reconnected_devices>>

\* --------------------------------------------- ticsync_recording: clients
\* the test on wifi_status, lines 191-194
NeedsJoinAlways(d, ssid) == TRUE
NeedsJoin(d, ssid) == ~d.wifiEnabled \/ d.ssid # ssid

\* lines 189-214 on one client
ClientSetUp(d, ssid, profile) ==
    LET j == IF NeedsJoin(d, ssid)
             THEN keep_wifi_on(connect_wifi(d, ssid), TRUE) ELSE d
    IN  [j EXCEPT !.profile = profile, !.mode = "client"]

\* the calls of lines 186-214 on client s, in the order they are issued
ClientSetupCallsStarting(d, ssid, s) ==
    <<Ev("client_connect", s)>>
        \o (IF NeedsJoin(d, ssid)
            THEN <<Ev("connect_wifi", s), Ev("keep_wifi_on", s)>> ELSE <<>>)
        \o <<Ev("client_config", s), Ev("start_client_recording", s)>>
ClientSetupCalls(d, ssid, s) ==
    <<Ev("client_connect", s)>>
        \o (IF NeedsJoin(d, ssid)
            THEN <<Ev("connect_wifi", s), Ev("keep_wifi_on", s)>> ELSE <<>>)
        \o <<Ev("client_config", s)>>

\* one iteration of the loop at line 181
RecClients ==
    /\ pc = "rec_clients"
    /\ IF i > Len(client_plan)
       THEN /\ pc' = "rec_start_server"
            /\ UNCHANGED <<error, dev, log, i, client_devices, profile_name>>
       ELSE LET g == client_plan[i] IN
            IF g.profile = ""
            THEN Raise("ValueError")
                 /\ UNCHANGED <<dev, log, i, client_devices, profile_name>>
            ELSE /\ profile_name' = g.profile
                 /\ \/ /\ ConnectCanFail(g.serial)
                       /\ Raise("ConnectError")
                       /\ UNCHANGED <<dev, log, i, client_devices>>
                    \/ /\ g.serial \in ConnectTargets(g.serial)
                       /\ dev' = [dev EXCEPT ![g.serial] =
                              ClientSetUp(@, server_hotspot_ssid, g.profile)]
                       /\ log' = log \o ClientSetupCalls(dev[g.serial],
                                              server_hotspot_ssid, g.serial)
                       /\ client_devices' = DictPut(client_devices, g.serial)
                       /\ i' = i + 1
                       /\ UNCHANGED <<pc, error>>
    /\ UNCHANGED <<args, envVars, detectVars, main_devices, planVars,
                   server_device, reconnected_devices, server_hotspot_ssid,
                   rec_args, client_plan, server_profile_name, printed_profile,
                   fnVars, interrupts>>

\* lines 219-223; the print at 219 names the loop variable profile_name
RecStartServer ==
    /\ pc = "rec_start_server"
    /\ IF client_plan = <<>>
       THEN Raise("NameError") /\ UNCHANGED <<dev, log, i, printed_profile>>
       ELSE /\ printed_profile' = profile_name
            /\ dev' = [dev EXCEPT ![server_device] = start_recording(@)]
            /\ log' = Append(log, Ev("start_server_recording", server_device))
            /\ i' = 1
            /\ pc' = "rec_start_clients"
            /\ UNCHANGED error
    /\ UNCHANGED <<args, envVars, detectVars, main_devices, planVars, rcVars,
                   server_hotspot_ssid, rec_args, client_plan,
                   server_profile_name, profile_name, fnVars,
                   interrupts>>

\* one iteration of the loop at lines 226-227
RecStartClients ==
    /\ pc = "rec_start_clients"
    /\ IF i > Len(client_devices)
       THEN pc' = "rec_poll" /\ i' = 1 /\ UNCHANGED <<dev, log>>
       ELSE /\ dev' = [dev EXCEPT ![client_devices[i]] = start_recording(@)]
            /\ log' = Append(log, Ev("start_client_recording", client_devices[i]))
            /\ i' = i + 1
            /\ UNCHANGED pc
    /\ UNCHANGED <<otherVars, error, args, envVars, detectVars, main_devices,
                   planVars, rcVars, server_hotspot_ssid>>

\* ------------------------------------------ ticsync_recording: the wait
\* _is_stable, lines 230-232
is_stable_once_recording(d) == d.recording
is_stable(d) == d.stable

\* the calls of one turn of the loop at lines 238-241 that finds client s
\* not Stable: the status read changes nothing, then time.sleep(5)
WaitCallsRestarting(s) == <<Ev("start_client_recording", s), Ev("sleep", s)>>
WaitCalls(s) == <<Ev("sleep", s)>>

\* lines 238-245: all() reads the clients in order and stops at the first
\* that is not Stable; the loop then sleeps and starts over
RecPoll ==
    /\ pc = "rec_poll"
    /\ IF i > Len(client_devices)
       THEN /\ pc' = "ready"
            /\ log' = Append(log, Ev("ready", NoSerial))
            /\ UNCHANGED i
       ELSE IF is_stable(dev[client_devices[i]])
       THEN i' = i + 1 /\ UNCHANGED <<pc, log>>
       ELSE /\ Len(OpsOf("sleep")) < MaxWaits
            /\ log' = log \o WaitCalls(client_devices[i])
            /\ i' = 1
            /\ UNCHANGED pc
    /\ UNCHANGED <<otherVars, error, args, envVars, dev, detectVars,
                   main_devices, planVars, rcVars, server_hotspot_ssid>>

\* a recording client's clock converges; the source gives no way back
Converge ==
    /\ pc \in {"rec_start_clients", "rec_poll"}
    /\ \E s \in Serials :
          /\ dev[s].recording /\ dev[s].mode = "client" /\ ~dev[s].stable
          /\ dev' = [dev EXCEPT ![s].stable = TRUE]
    /\ UNCHANGED <<otherVars, pc, error, args, envVars, log, detectVars,
                   main_devices, planVars, i, rcVars, server_hotspot_ssid>>

\* ------------------------------------------------------- SpecRecording
Profiles == {"profileA", "profileB"}
Groups(g, p) == [k \in 1..Len(g) |-> Group(g[k], p)]
RecExplicitArgs ==
    {[server |-> <<Group(s, "profileA")>>, clients |-> Groups(g, q),
      total_num_devices |-> NoTotal, profile |-> ""] :
        s \in Serials, g \in ClientGroups, q \in Profiles}
RecInferArgs ==
    {[server |-> <<>>, clients |-> <<>>, total_num_devices |-> n,
      profile |-> "profileA"] : n \in 1..MaxDevices}
\* command lines outside the two forms: nothing given, one option of a pair
\* missing, two --server options, a group without its profile, both forms
RecOddArgs ==
    LET one == <<Group(1, "profileA")>>
        two == <<Group(MaxDevices, "profileB")>>
    IN  {NoRecArgs,
         [NoRecArgs EXCEPT !.server = one],
         [NoRecArgs EXCEPT !.total_num_devices = MaxDevices],
         [NoRecArgs EXCEPT !.server = one \o two, !.clients = two],
         [NoRecArgs EXCEPT !.server = <<Group(1, "")>>, !.clients = two],
         [NoRecArgs EXCEPT !.server = one, !.clients = two \o <<Group(1, "")>>],
         [NoRecArgs EXCEPT !.server = one, !.clients = two,
                           !.total_num_devices = MaxDevices,
                           !.profile = "profileB"],
         [NoRecArgs EXCEPT !.server = one, !.clients = two,
                           !.total_num_devices = 1, !.profile = "profileB"]}

\* the devices before a session of the plan (server, clients): untouched;
\* as an earlier session of the same plan left them; as generic_cleanup
\* left them after such a session (keep-Wi-Fi-on cleared, the network not
\* forgotten); clients with Wi-Fi disabled; clients on another network
RecPlanDevs(server, clients) ==
    LET others(d) == [s \in Serials |->
                         IF s \in clients \ {server} THEN d ELSE IdleDevice]
    IN  {others(IdleDevice),
         [others([IdleDevice EXCEPT !.keepWifi = TRUE,
                                    !.ssid = HotspotSsid(server),
                                    !.saved = {HotspotSsid(server)}])
             EXCEPT ![server] = [IdleDevice EXCEPT !.rpc = TRUE,
                                                   !.hotspot = TRUE]],
         others([IdleDevice EXCEPT !.ssid = HotspotSsid(server),
                                   !.saved = {HotspotSsid(server)}]),
         others([IdleDevice EXCEPT !.wifiEnabled = FALSE]),
         others([IdleDevice EXCEPT !.ssid = HomeSsid, !.saved = {HomeSsid}])}

RecInit ==
    /\ pc = "rec_main"
    /\ InitLocals
    /\ args = [server_serial |-> NoSerial, client_serials |-> <<>>,
               total_num_devices |-> NoTotal]
    /\ client_plan = <<>>
    /\ server_profile_name = ""
    /\ profile_name = ""
    /\ printed_profile = ""
    /\ fn_path = ""
    /\ fn_runs = 0
    /\ fn_input = <<>>
    /\ fn_first = <<>>
    /\ FmIdle
    /\ \/ /\ rec_args \in RecExplicitArgs \cup RecOddArgs
          /\ usb = AllAttached
          /\ dev \in IF rec_args.server # <<>> /\ rec_args.clients # <<>>
                     THEN RecPlanDevs(rec_args.server[1].serial,
                              {rec_args.clients[k].serial :
                                  k \in 1..Len(rec_args.clients)})
                     ELSE {[s \in Serials |-> IdleDevice]}
       \/ /\ rec_args \in RecInferArgs
          /\ usb \in Listings
          /\ dev \in IF usb = <<>> THEN {[s \in Serials |-> IdleDevice]}
                     ELSE RecPlanDevs(usb[1], Range(usb))

RecNext ==
    \/ RecMain
    \/ RecConnectServer
    \/ RecServerSetup
    \/ RecClients
    \/ RecStartServer
    \/ RecStartClients
    \/ RecPoll
    \/ Converge
    \/ Plug
    \/ Unplug

SpecRecording == RecInit /\ [][RecNext]_vars

\* ------------------------------ the cleanup functions applied on their own
\* Inputs: a server and MaxFnClients clients, each in any combination of
\* {recording, rpc, hotspot, keep-Wi-Fi-on} and joined to no network, to the
\* server's hotspot or to another network. Each run applies one whole path.
FnServer == Min(Serials)
FnClients == [k \in 1..MaxFnClients |-> FnServer + k]
FnPlan == <<FnServer>> \o FnClients
FnDeviceStates ==
    {[IdleDevice EXCEPT !.recording = a, !.rpc = b, !.hotspot = c,
                        !.keepWifi = d, !.ssid = n, !.saved = {n} \ {NoNetwork}] :
        a \in BOOLEAN, b \in BOOLEAN, c \in BOOLEAN, d \in BOOLEAN,
        n \in {NoNetwork, HotspotSsid(FnServer), HomeSsid}}
FnInputs ==
    {f \in [Serials -> FnDeviceStates \cup {IdleDevice}] :
        \A s \in Serials : s \notin Range(FnPlan) => f[s] = IdleDevice}

FnInit ==
    /\ pc = "fn"
    /\ InitLocals
    /\ usb = FnPlan
    /\ args = [server_serial |-> NoSerial, client_serials |-> <<>>,
               total_num_devices |-> NoTotal]
    /\ rec_args = NoRecArgs
    /\ client_plan = <<>>
    /\ server_profile_name = ""
    /\ profile_name = ""
    /\ printed_profile = ""
    /\ fn_path \in {"generic", "known"}
    /\ fn_runs = 0
    /\ dev \in FnInputs
    /\ fn_input = dev
    /\ fn_first = dev
    /\ FmIdle

FnApply(path, after) ==
    /\ pc = "fn"
    /\ fn_path = path
    /\ fn_runs < MaxRuns
    /\ dev' = after
    /\ fn_runs' = fn_runs + 1
    /\ fn_first' = IF fn_runs = 0 THEN after ELSE fn_first
    /\ UNCHANGED <<pc, error, args, envVars, log, detectVars, main_devices,
                   planVars, i, rcVars, server_hotspot_ssid, recVars,
                   fn_path, fn_input, recordings, ticsync_server_files,
                   ticsync_client_files,
                   date_sorted_ticsync_server_recordings, fm_result,
                   interrupts>>

FnGeneric == FnApply("generic", GenericCleanupAll(dev, usb))
FnKnown == FnApply("known", KnownRoleCleanup(dev, FnServer, FnClients))

FnNext == FnGeneric \/ FnKnown
SpecFns == FnInit /\ [][FnNext]_vars

TornDown(d) == ~d.recording /\ ~d.hotspot /\ ~d.rpc /\ ~d.keepWifi

\* C5: on both paths, running the cleanup a second time leaves every device
\* in the state the first run left it in.
C5_CleanupIdempotent ==
    fn_runs >= 2 => dev = fn_first

C5_Witness ==
    /\ fn_runs = 2
    /\ fn_path = "known"
    /\ fn_first # fn_input
    /\ \A s \in Range(FnPlan) : fn_first[s] # fn_input[s]
    /\ dev = fn_first

\* C6: generic_cleanup leaves a device that was in any of the 16 combinations
\* of {recording, hotspot on, rpc on, keep-Wi-Fi-on} not recording, hotspot
\* off, RPC off and keep-Wi-Fi-on false.
C6_GenericCleanupTearsDown ==
    (fn_path = "generic" /\ fn_runs >= 1) =>
        \A s \in Range(FnPlan) : TornDown(dev[s])

C6_Witness ==
    /\ fn_path = "generic"
    /\ fn_runs = 1
    /\ \A s \in Range(FnPlan) :
          /\ fn_input[s].recording /\ fn_input[s].hotspot
          /\ fn_input[s].rpc /\ fn_input[s].keepWifi
          /\ TornDown(dev[s])

\* ------------------------------------------------- observations on the log
SerialsOf(op) == [k \in 1..Len(OpsOf(op)) |-> OpsOf(op)[k].serial]
Issued(op, s) == Count(SerialsOf(op), s)
InferRun == ArgsConsistent(args) /\ Truthy(args.total_num_devices)
RpcOn == {s \in Range(devices) : dev[s].rpc}
KnownRoleSteps == Len(OpsOf("cleanup_hotspot")) + Len(OpsOf("server_device_cleanup"))
\* sessions opened by the detector and not given back by a disconnect; no
\* step of ticsync_cleanup.py issues a disconnect
DetectorSessions == Range(SerialsOf("detect_connect")) \ Range(SerialsOf("disconnect"))

\* C1 (as stated): for every total >= 2 and attached set of that size,
\* whatever the RPC flags, detection ends with one Server and total - 1
\* Clients classified.
C1_AnyFlagsClassified ==
    (pc = "detect_after" /\ args.total_num_devices >= 2) =>
        /\ server_serial \in Serials
        /\ Len(client_serials) = args.total_num_devices - 1
        /\ retries < MaxRetries

\* C1 (amended): for every total >= 2 and attached set of that size, detection
\* that runs to the end of its loop has classified exactly one Server and
\* total - 1 Clients when exactly one attached device is RPC-enabled, and has
\* used up its 10 attempts (timeout) when none or several are.
C1_OneRpcDeviceClassified ==
    (pc = "detect_after" /\ args.total_num_devices >= 2) =>
        IF Cardinality(RpcOn) = 1
        THEN /\ server_serial \in RpcOn
             /\ Range(client_serials) = Range(devices) \ RpcOn
             /\ Len(client_serials) = args.total_num_devices - 1
             /\ retries < MaxRetries
        ELSE retries = MaxRetries

C1_Witness ==
    /\ pc = "detect_after"
    /\ args.total_num_devices = MaxDevices
    /\ Cardinality(RpcOn) = 1
    /\ server_serial \in RpcOn
    /\ Len(client_serials) = MaxDevices - 1

\* C2: when the attached count differs from the declared total, detection
\* fails with the assertion error before any connect or status read (nothing
\* was issued on the device link), no attempt was made, and the run has ended.
C2_MismatchFailsBeforeIO ==
    (InferRun /\ pc \notin {"main", "detect"}
        /\ Len(devices) # args.total_num_devices) =>
        /\ pc = "raised"
        /\ error = "AssertionError"
        /\ log = <<>>
        /\ retries = 0
        /\ detected_devices = {}
        /\ ~ENABLED Next

C2_Witness ==
    /\ pc = "raised"
    /\ error = "AssertionError"
    /\ InferRun
    /\ Len(devices) > args.total_num_devices
    /\ log = <<>>

\* what "every client is reconnected" means on the device link: each client
\* serial is in reconnected_devices and a reconnect session to it was opened
ClientsReconnected ==
    \A c \in Range(client_serials) :
        c \in reconnected_devices /\ Issued("reconnect_connect", c) > 0
\* a step of reconnect_devices that attempts the server connect (line 52)
ServerConnectAttempt ==
    pc = "rc_server" /\ (pc' = "raised" \/ log' # log \/ server_device' # server_device)

C7_GenericOnceInListingOrder ==
    /\ [][(pc = "cleanup" /\ pc' = "generic_for") => main_devices' = usb]_vars
    /\ []((server_device = NoSerial /\ pc = "generic_for") =>
            /\ SerialsOf("generic_cleanup") = SubSeq(main_devices, 1, i - 1)
            /\ SerialsOf("generic_connect") = SubSeq(main_devices, 1, i - 1))
    /\ []((server_device = NoSerial /\ pc = "done") =>
            /\ SerialsOf("generic_cleanup") = main_devices
            /\ SerialsOf("generic_connect") = main_devices)
    /\ [](server_device = NoSerial => KnownRoleSteps = 0)
    /\ [](server_device # NoSerial => Len(OpsOf("generic_cleanup")) = 0)

C7_Witness ==
    /\ pc = "done"
    /\ server_device = NoSerial
    /\ Len(main_devices) = MaxDevices
    /\ main_devices # devices
    /\ SerialsOf("generic_cleanup") = main_devices

\* C8: detection makes at most 10 attempts (so at most 9 backoff sleeps); once
\* the 10 attempts are used up it returns no server and no clients, whatever
\* was classified, and the caller goes down the generic path: no reconnect,
\* no known-role step, and no failure other than a connect of that path.
C8_TimeoutFallsBackToGeneric ==
    /\ retries <= MaxRetries
    /\ Len(OpsOf("sleep")) <= MaxRetries - 1
    /\ (pc = "detect_after" /\ args.total_num_devices >= 2
          /\ (server_serial = NoSerial
                \/ Len(client_serials) # args.total_num_devices - 1))
          => retries = MaxRetries
    /\ (InferRun /\ retries = MaxRetries
          /\ pc \notin {"detect_while", "detect_for", "detect_after"}) =>
            /\ server_device = NoSerial
            /\ client_devices = <<>>
            /\ pc \in {"cleanup", "generic_for", "done", "raised"}
            /\ pc = "raised" => error = "ConnectError"
            /\ pc = "done" => SerialsOf("generic_cleanup") = main_devices
            /\ Len(OpsOf("reconnect_connect")) = 0
            /\ KnownRoleSteps = 0

C8_Witness ==
    /\ pc = "done"
    /\ retries = MaxRetries
    /\ server_serial # NoSerial
    /\ client_serials # <<>>
    /\ server_device = NoSerial
    /\ client_devices = <<>>
    /\ Len(OpsOf("sleep")) = MaxRetries - 1
    /\ Len(OpsOf("generic_cleanup")) = MaxDevices

\* C9 (as stated): with exactly one attached device RPC-enabled and the
\* attached count equal to the declared total, the first pass classifies
\* that device Server and the others Clients, each device connected exactly
\* once, with no backoff sleep.
C9_OneRpcDeviceFirstPass ==
    (pc = "detect_after" /\ Cardinality(RpcOn) = 1) =>
        /\ server_serial \in RpcOn
        /\ Range(client_serials) = Range(devices) \ RpcOn
        /\ retries = 1
        /\ Len(OpsOf("sleep")) = 0
        /\ \A s \in Range(devices) : Issued("detect_connect", s) = 1

\* C10 (as stated): when role detection returns, on the timeout path as on
\* the success path, no session it opened is still open.
C10_DetectorSessionsClosed ==
    (InferRun /\ pc \in {"cleanup", "generic_for", "known_clients",
                           "known_server", "done"}) => DetectorSessions = {}

\* C4: ticsync_recording signals readiness only in a state where every
\* client is Stable, and while some client is not Stable no step signals
\* readiness, whatever the other clients report.
SomeClientNotStable == \E c \in Range(client_devices) : ~dev[c].stable
C4_ReadyOnlyWhenAllStable ==
    /\ [](pc = "ready" => ~SomeClientNotStable)
    /\ [][SomeClientNotStable => pc' # "ready"]_vars

\* readiness after a pass in which the first client was Stable and the
\* second was not, so that the loop slept and polled again
C4_Witness ==
    /\ pc = "ready"
    /\ Len(client_devices) >= 2
    /\ \E k \in 1..Len(log) :
          log[k].op = "sleep" /\ log[k].serial = client_devices[2]
    /\ ~SomeClientNotStable

\* ------------------------------------------------- a run that keeps going
\* The entry point is one sequential process: while a step is possible, one
\* is taken.
SpecFair == Init /\ [][Next]_vars /\ WF_vars(Next)

InReconnect == pc \in {"rc_while", "rc_for", "rc_server"}
InCleanup == pc \in {"cleanup", "generic_for", "known_clients", "known_server"}

\* C11: a failed connect in reconnect_devices does not end the run, and no
\* device-I/O failure during cleanup ends the run with an error.
C11_FailuresNeverRaise ==
    [][(InReconnect \/ InCleanup) => pc' # "raised"]_vars

\* C12: reconnect_devices, once entered, returns (or a connect fails), for
\* every server serial and every list of client serials. Runs the connect
\* budget MaxConnects cuts short are not counted.
ConnectBudgetSpent == \E s \in Serials : Connects(s) >= MaxConnects
C12_ReconnectTerminates ==
    (pc = "reconnect") ~> (InCleanup \/ pc \in {"done", "raised"}
                              \/ ConnectBudgetSpent)

\* ------------------------------------------ observations on the recording
Idx(ops) == {k \in 1..Len(log) : log[k].op \in ops}
Earlier(ops, k) == \E j \in 1..(k - 1) : log[j].op \in ops
PlanSerials == [k \in 1..Len(client_plan) |-> client_plan[k].serial]
RECURSIVE FirstOccurrences(_)
FirstOccurrences(q) ==
    IF q = <<>> THEN <<>>
    ELSE LET front == FirstOccurrences(SubSeq(q, 1, Len(q) - 1))
         IN  IF q[Len(q)] \in Range(front) THEN front
             ELSE Append(front, q[Len(q)])
IsPrefix(a, b) == Len(a) <= Len(b) /\ \A k \in 1..Len(a) : a[k] = b[k]
ClientsSetUp == pc \in {"rec_start_server", "rec_start_clients", "rec_poll", "ready"}
Polling == pc \in {"rec_poll", "ready"}

\* C13: in ticsync_recording, switching the server's hotspot on and setting
\* up its RPC (enable, or a new session id) both come before every client
\* connect_wifi.
C13_ServerLinkBeforeJoin ==
    \A k \in Idx({"connect_wifi"}) :
        /\ Earlier({"hotspot_on"}, k)
        /\ Earlier({"rpc_enable", "rpc_new_session_id"}, k)

\* a client joined the hotspot of a server whose RPC was already on
C13_Witness ==
    /\ Idx({"connect_wifi"}) # {}
    /\ Idx({"rpc_new_session_id"}) # {}

\* C14 (as stated): the server's recording is configured and started before
\* the first client is connected, and each client's recording is started in
\* that client's own step.
C14_ServerStartedBeforeClients ==
    \A k \in Idx({"client_connect"}) :
        /\ Earlier({"server_config"}, k)
        /\ Earlier({"start_server_recording"}, k)
        /\ \A j \in Idx({"client_connect"}) :
              j < k => \E m \in (j + 1)..(k - 1) :
                          /\ log[m].op = "start_client_recording"
                          /\ log[m].serial = log[j].serial

\* C14 (amended): the server's recording is configured before the first
\* client is connected and started only after every client of the plan has
\* been connected and configured; the clients' recordings are started after
\* that, each once, before stability polling begins.
C14_ServerStartAfterClientSetup ==
    /\ \A k \in Idx({"client_connect"}) :
          /\ Earlier({"server_config"}, k)
          /\ ~Earlier({"start_server_recording"}, k)
    /\ \A k \in Idx({"start_server_recording"}) :
          Cardinality({j \in Idx({"client_config"}) : j < k}) = Len(client_plan)
    /\ \A k \in Idx({"start_client_recording"}) :
          Earlier({"start_server_recording"}, k)
    /\ Polling => \A c \in Range(client_devices) :
                      Issued("start_client_recording", c) = 1

C14_Witness ==
    /\ pc = "rec_poll"
    /\ Len(client_plan) >= 2
    /\ Idx({"start_server_recording"}) # {}

\* C15: start_recording is issued on the server before any client, on the
\* clients in plan order (a serial listed twice is started once, at its
\* first place), and every client is recording when polling begins.
C15_ServerThenClientsInPlanOrder ==
    /\ \A k \in Idx({"start_client_recording"}) :
          \E j \in 1..(k - 1) : log[j] = Ev("start_server_recording", server_device)
    /\ IsPrefix(SerialsOf("start_client_recording"), FirstOccurrences(PlanSerials))
    /\ Polling =>
          /\ SerialsOf("start_client_recording") = FirstOccurrences(PlanSerials)
          /\ \A c \in Range(PlanSerials) : dev[c].recording

\* two clients listed against the listing order, both started, polling not
\* yet begun
C15_Witness ==
    /\ pc = "rec_poll" /\ i = 1
    /\ Len(PlanSerials) = 2 /\ PlanSerials[1] > PlanSerials[2]
    /\ SerialsOf("start_client_recording") = PlanSerials
    /\ Idx({"sleep"}) = {}

\* C16: once client setup is finished, every client of the plan has
\* keep-Wi-Fi-on set, also those that were already on the server's hotspot.
C16_EveryClientKeepsWifiOn ==
    ClientsSetUp => \A c \in Range(PlanSerials) : dev[c].keepWifi

\* C17: when the known-role cleanup run has completed, every client's
\* device is not recording, has keep-Wi-Fi-on false and has forgotten the
\* server's hotspot network, and the server is not recording with RPC off
\* and hotspot off, whatever state the devices were in when cleanup started.
ClientCleaned(d, ssid) ==
    ~d.recording /\ ~d.keepWifi /\ d.ssid # ssid /\ ssid \notin d.saved
ServerCleaned(d) == ~d.recording /\ ~d.rpc /\ ~d.hotspot
C17_KnownRoleCleanupIsComplete ==
    (pc = "done" /\ server_device # NoSerial) =>
        /\ \A c \in Range(client_serials) \ {server_device} :
              ClientCleaned(dev[c], server_hotspot_ssid)
        /\ ServerCleaned(dev[server_device])

\* ------------------------------------- a session, interrupted, then cleanup
\* The operator interrupts ticsync_recording anywhere, also between the calls
\* of one step, plugs all devices in again (ticsync_cleanup main, lines
\* 171-174) and starts ticsync_cleanup for the plan of the session or for
\* the number of devices; a cleanup still reconnecting may be interrupted
\* and started again.
RecordingPcs ==
    {"rec_main", "rec_connect_server", "rec_server_setup", "rec_clients",
     "rec_start_server", "rec_start_clients", "rec_poll", "ready"}
ReconnectingPcs ==
    {"detect", "detect_while", "detect_for", "detect_after", "reconnect",
     "rc_while", "rc_for", "rc_server"}

\* the states lines 156-165 take the server through
PartialServerSetUp(d) ==
    LET h == set_device_hotspot_status(d, TRUE)
    IN  {d, h, IF ~h.rpc THEN set_dds_rpc_enabled(h, TRUE) ELSE h}
\* the states lines 191-207 take a client through
PartialClientSetUp(d, ssid) ==
    IF NeedsJoin(d, ssid)
    THEN {d, connect_wifi(d, ssid), keep_wifi_on(connect_wifi(d, ssid), TRUE)}
    ELSE {d}

InterruptedDevs ==
    IF pc = "rec_server_setup"
    THEN {[dev EXCEPT ![server_device] = x] :
             x \in PartialServerSetUp(dev[server_device])}
    ELSE IF pc = "rec_clients" /\ i <= Len(client_plan)
    THEN {[dev EXCEPT ![client_plan[i].serial] = x] :
             x \in PartialClientSetUp(dev[client_plan[i].serial],
                                      server_hotspot_ssid)}
    ELSE {dev}

CleanupArgsFor(server, clients) ==
    {[server_serial |-> NoSerial, client_serials |-> <<>>,
      total_num_devices |-> MaxDevices]}
    \cup (IF server # NoSerial /\ clients # <<>>
          THEN {[server_serial |-> server, client_serials |-> <<clients>>,
                 total_num_devices |-> NoTotal]}
          ELSE {})

Interrupt ==
    /\ interrupts < MaxInterrupts
    /\ \/ /\ pc \in RecordingPcs
          /\ dev' \in InterruptedDevs
          /\ args' \in CleanupArgsFor(server_serial, PlanSerials)
       \/ /\ pc \in ReconnectingPcs
          /\ UNCHANGED <<dev, args>>
    /\ interrupts' = interrupts + 1
    /\ pc' = "main"
    /\ usb' = AllAttached
    /\ error' = ""
    /\ log' = <<>>
    /\ devices' = <<>>
    /\ main_devices' = <<>>
    /\ server_serial' = NoSerial
    /\ client_serials' = <<>>
    /\ detected_devices' = {}
    /\ retries' = 0
    /\ i' = 1
    /\ server_device' = NoSerial
    /\ client_devices' = <<>>
    /\ reconnected_devices' = {}
    /\ server_hotspot_ssid' = NoNetwork
    /\ rec_args' = NoRecArgs
    /\ client_plan' = <<>>
    /\ server_profile_name' = ""
    /\ profile_name' = ""
    /\ printed_profile' = ""
    /\ UNCHANGED <<plugs, fnVars>>

\* the steps of the two entry points, the devices staying plugged in
ProgramNext ==
    \/ RecMain
    \/ RecConnectServer
    \/ RecServerSetup
    \/ RecClients
    \/ RecStartServer
    \/ RecStartClients
    \/ RecPoll
    \/ Converge
    \/ MainStart
    \/ DetectList
    \/ DetectWhile
    \/ DetectFor
    \/ DetectAfter
    \/ ReconnectEnter
    \/ ReconnectWhile
    \/ ReconnectFor
    \/ ReconnectServer
    \/ CleanupStart
    \/ GenericFor
    \/ KnownClients
    \/ KnownServer

SessionNext == ProgramNext \/ Interrupt
SpecSession == RecInit /\ [][SessionNext]_vars

\* C18: after ticsync_recording was interrupted at any point, or a cleanup
\* was interrupted while reconnecting, a cleanup run that completes leaves
\* every device not recording, keep-Wi-Fi-on false, RPC off, hotspot off.
C18_CleanupAfterInterruptTearsDown ==
    pc = "done" => \A s \in Serials : TornDown(dev[s])

\* C19: a command line that gives both an explicit server/client assignment
\* and a total device count is rejected in argument validation, before any
\* device I/O.
RecBothForms == rec_args.server # <<>> /\ rec_args.total_num_devices # NoTotal
BothForms == args.server_serial # NoSerial /\ args.total_num_devices # NoTotal
Rejected == pc = "raised" /\ log = <<>>
PlanActedOn == Idx({"server_connect", "client_connect", "reconnect_connect"}) # {}
C20_OneServerNotAClient ==
    PlanActedOn =>
        /\ server_serial \in Serials
        /\ server_serial \notin Range(PlanSerials) \cup Range(client_serials)

\* either entry point, started on its own
EntryInit == Init \/ RecInit
SpecEntryPoints == EntryInit /\ [][ProgramNext]_vars

\* -------------------------------------------------- roles from a total
RecInferRun == rec_args.server = <<>> /\ rec_args.total_num_devices # NoTotal
RecPlanMade == pc \in RecordingPcs \ {"rec_main"}
Examined == SerialsOf("detect_connect")
ExaminedRpcOn == SelectSeq(Examined, LAMBDA s : dev[s].rpc)
Detecting == pc \in {"detect_while", "detect_for", "detect_after"}

\* the detector's half: of the devices examined so far, those with RPC off
\* are the clients, in the order examined, and the server is the one with
\* RPC on that was examined last
DetectorRolesFollowRpc ==
    (InferRun /\ Detecting) =>
        /\ client_serials = SelectSeq(Examined, LAMBDA s : ~dev[s].rpc)
        /\ server_serial = IF ExaminedRpcOn = <<>> THEN NoSerial
                           ELSE ExaminedRpcOn[Len(ExaminedRpcOn)]

\* C21 (as stated): whenever roles are inferred from a total, by
\* ticsync_cleanup or by ticsync_recording, a device is Server exactly when
\* its RPC is on, every other device is Client.
C21_InferredServerIffRpcOn ==
    /\ DetectorRolesFollowRpc
    /\ (RecInferRun /\ RecPlanMade /\ log = <<>>) =>
          \A s \in Range(usb) : (s = server_serial) <=> dev[s].rpc

\* C21 (amended): the detector of ticsync_cleanup assigns roles by the RPC
\* status it reads; ticsync_recording reads no status and makes the first
\* listed device the server and the others clients in listing order.
C21_DetectorByRpcRecordingByListing ==
    /\ DetectorRolesFollowRpc
    /\ (RecInferRun /\ RecPlanMade) =>
          /\ server_serial = usb[1]
          /\ PlanSerials = Tail(usb)

\* a recording whose inferred server has RPC off
C21_Witness ==
    /\ RecInferRun /\ pc = "rec_connect_server"
    /\ ~dev[server_serial].rpc
    /\ Len(PlanSerials) >= 2

\* C22: no device has two open handles at once: a handle one component
\* obtained is released before another component connects to the same
\* serial.
OpenHandles(s) == Connects(s) - Issued("disconnect", s)
C22_OneHandlePerSerial ==
    \A s \in Serials : OpenHandles(s) <= 1

\* C23: a connect failure in ticsync_recording ends the run: no step
\* follows it and readiness is not signalled.
C23_FailureAbortsRecording ==
    error # "" => (~ENABLED RecNext /\ Idx({"ready"}) = {})

\* the connect to the second client failed after the first was set up
C23_Witness ==
    /\ pc = "raised" /\ error = "ConnectError"
    /\ Len(client_plan) >= 2
    /\ Cardinality(Idx({"client_config"})) = 1
    /\ Idx({"start_server_recording"}) = {}

\* ------------------------------------------- known-role cleanup ordering
\* the server's RPC or hotspot goes from on to off in this step
ServerTurnedOff ==
    /\ server_device # NoSerial
    /\ \/ dev[server_device].rpc /\ ~dev'[server_device].rpc
       \/ dev[server_device].hotspot /\ ~dev'[server_device].hotspot

\* C24: in the known-role cleanup every client has been processed by
\* cleanup_hotspot before the step that turns the server's RPC or hotspot
\* off, no client is processed after the server, and the hotspot SSID the
\* clients are compared with was read from the server before that step and
\* is not read again.
C24_ClientsBeforeServer ==
    [][/\ ServerTurnedOff =>
             /\ pc = "known_server"
             /\ \A s \in Range(client_devices) :
                    Issued("cleanup_hotspot", s) >= 1
             /\ server_hotspot_ssid = HotspotSsid(server_device)
             /\ server_hotspot_ssid' = server_hotspot_ssid
       /\ Idx({"server_device_cleanup"}) # {} =>
             /\ Len(log') >= Len(log)
             /\ \A k \in (DOMAIN log') \ (DOMAIN log) :
                    log'[k].op # "cleanup_hotspot"
             /\ server_hotspot_ssid' = server_hotspot_ssid]_vars
C24_Witness ==
    /\ pc = "done"
    /\ Idx({"server_device_cleanup"}) # {}
    /\ Cardinality(Idx({"cleanup_hotspot"})) >= 2
    /\ \E s \in Range(client_devices) :
          /\ s # server_device
          /\ HotspotSsid(server_device) \notin dev[s].saved
          /\ ~dev[s].keepWifi
    /\ ~dev[server_device].hotspot /\ ~dev[server_device].rpc

\* ------------------------------------ server_device_cleanup, cleanup_hotspot
\* C25: after server_device_cleanup the server has its hotspot off and its
\* RPC off, whatever the hotspot and RPC states were before, and nothing else
\* of the server is changed.
C25_ServerCleanupTurnsBothOff ==
    (fn_path = "known" /\ fn_runs >= 1) =>
        /\ ~dev[FnServer].hotspot
        /\ ~dev[FnServer].rpc
        /\ dev[FnServer] =
               [fn_input[FnServer] EXCEPT !.hotspot = FALSE, !.rpc = FALSE]
C25_Witness ==
    /\ fn_path = "known"
    /\ fn_runs = 1
    /\ ~fn_input[FnServer].hotspot
    /\ fn_input[FnServer].rpc
    /\ ~dev[FnServer].hotspot
    /\ ~dev[FnServer].rpc

\* C26: the known-role client cleanup changes nothing of a client whose
\* current Wi-Fi SSID differs from the server's hotspot SSID: its
\* keep-Wi-Fi-on flag and its saved networks are as they were.
OffHotspotClients ==
    {s \in Range(FnClients) : fn_input[s].ssid # HotspotSsid(FnServer)}
C26_OtherNetworkClientUntouched ==
    (fn_path = "known" /\ fn_runs >= 1) =>
        \A s \in OffHotspotClients :
            /\ dev[s].keepWifi = fn_input[s].keepWifi
            /\ dev[s].saved = fn_input[s].saved
            /\ dev[s] = fn_input[s]
C26_Witness ==
    /\ fn_path = "known"
    /\ fn_runs = 1
    /\ \E s \in OffHotspotClients :
          /\ fn_input[s].ssid = HomeSsid
          /\ fn_input[s].keepWifi
          /\ dev[s].keepWifi
          /\ HomeSsid \in dev[s].saved

\* ------------------------------------------ ticsync_recording: the RPC step
NewEvents == SubSeq(log', Len(log) + 1, Len(log'))
NewOps == {NewEvents[k].op : k \in DOMAIN NewEvents}
ServerSetupStep == pc = "rec_server_setup" /\ pc' = "rec_clients"

\* C27: in the server setup of a recording run, RPC is enabled and no session
\* id is requested when the server's RPC is off, a new session id is
\* requested and RPC is not enabled again when it is on; one of the two
\* calls is issued, once in the run, and RPC is on afterwards.
C27_EnableOrNewSessionId ==
    [][/\ ServerSetupStep =>
             /\ Idx({"rpc_enable", "rpc_new_session_id"}) = {}
             /\ Cardinality({k \in DOMAIN NewEvents :
                    NewEvents[k].op \in {"rpc_enable", "rpc_new_session_id"}}) = 1
             /\ NewOps \cap {"rpc_enable", "rpc_new_session_id"} =
                    IF ~dev[server_device].rpc THEN {"rpc_enable"}
                    ELSE {"rpc_new_session_id"}
             /\ dev'[server_device].rpc
       /\ ~ServerSetupStep =>
             NewOps \cap {"rpc_enable", "rpc_new_session_id"} = {}]_vars
C27_Witness ==
    /\ pc = "rec_clients"
    /\ Idx({"rpc_new_session_id"}) # {}
    /\ Idx({"rpc_enable"}) = {}
    /\ dev[server_device].rpc
    /\ dev[server_device].mode = "server"

\* ------------------------------------- ticsync_recording: joining clients
\* C28: a client is joined to the hotspot exactly when its Wi-Fi is disabled
\* or its current SSID differs from the server's hotspot SSID; every join
\* uses the one value read from the server after its hotspot was enabled,
\* which no later step replaces, so all joined clients are on that network.
C28_JoinIffNotOnHotspot ==
    [][/\ (pc = "rec_clients" /\ i' = i + 1) =>
             LET s == client_plan[i].serial IN
             /\ ("connect_wifi" \in NewOps) <=>
                    (~dev[s].wifiEnabled
                         \/ dev[s].ssid # HotspotSsid(server_device))
             /\ Idx({"hotspot_on"}) # {}
             /\ server_hotspot_ssid = HotspotSsid(server_device)
             /\ dev'[s].wifiEnabled => dev'[s].ssid = server_hotspot_ssid
             /\ "connect_wifi" \in NewOps =>
                    /\ dev'[s].wifiEnabled
                    /\ dev'[s].ssid = server_hotspot_ssid
       /\ ~(pc = "rec_clients" /\ i' = i + 1) => "connect_wifi" \notin NewOps
       /\ server_hotspot_ssid' # server_hotspot_ssid => ServerSetupStep]_vars
C28_Witness ==
    /\ pc = "rec_start_server"
    /\ Cardinality(Idx({"client_config"})) = 2
    /\ Cardinality(Idx({"connect_wifi"})) = 1
    /\ Cardinality(Range(client_devices)) = 2
    /\ \A s \in Range(client_devices) : dev[s].ssid = server_hotspot_ssid

\* --------------------------------------------- reconnect_devices' result
ReconnectReturned == pc = "cleanup" /\ Idx({"reconnect_connect"}) # {}
Returned == Range(client_devices) \cup {server_device}

\* C29: a serial is marked reconnected only after its connect succeeded and
\* its recording, if any, was stopped; when reconnect_devices returns, no
\* device it connected to is recording, and the result holds the server
\* handle and one client handle per client serial, which are all the
\* handles it obtained.
C29_ReconnectedNotRecording ==
    /\ InReconnect =>
          \A s \in reconnected_devices :
              LET t == IF s = NoSerial THEN server_device ELSE s IN
              /\ t # NoSerial
              /\ Issued("reconnect_connect", t) >= 1
              /\ ~dev[t].recording
    /\ ReconnectReturned =>
          /\ server_device # NoSerial
          /\ server_serial # NoSerial => server_device = server_serial
          /\ Range(client_devices) = Range(client_serials)
          /\ Len(client_devices) = Len(client_serials)
          /\ \A s \in Returned : ~dev[s].recording
          /\ \A s \in Serials :
                Issued("reconnect_connect", s) = (IF s \in Returned THEN 1 ELSE 0)
C29_Witness ==
    /\ ReconnectReturned
    /\ Len(client_devices) >= 2
    /\ Cardinality(Idx({"stop_recording"})) >= 2
    /\ \A s \in Returned : ~dev[s].recording

\* ------------------------------------------------ detection, later passes
\* C30: every detection pass works on the devices attached at that time, so
\* when the ten passes are used up every attached device has been connected
\* to and classified; no serial is connected to by the detector twice.
C30_LatePassesSeeNewDevices ==
    /\ (pc = "detect_after" /\ DetectTimedOut(retries)) =>
           Attached \subseteq detected_devices
    /\ \A s \in Serials : Issued("detect_connect", s) <= 1

\* ------------------------------------------------ ticsync_recording: waiting
\* C31: from the last start_recording to the readiness message the program
\* issues no device command, only status reads and sleeps: a step taken while
\* polling, an interrupt included, leaves every device as it was apart from
\* the stability the device itself reports.
C31_WaitingIssuesNoCommand ==
    [][pc = "rec_poll" =>
          /\ NewOps \subseteq {"sleep", "ready"}
          /\ \A s \in Serials :
                [dev'[s] EXCEPT !.stable = dev[s].stable] = dev[s]
          /\ pc' \in {"rec_poll", "ready", "main"}]_vars
C31_Witness ==
    /\ pc = "rec_poll"
    /\ Len(OpsOf("sleep")) >= 2
    /\ \E s \in Serials : dev[s].recording /\ dev[s].mode = "client" /\ ~dev[s].stable
    /\ \E s \in Serials : dev[s].recording /\ dev[s].mode = "client" /\ dev[s].stable
    /\ \E s \in Serials : dev[s].recording /\ dev[s].mode = "server"

\* --------------------------------------------- explicit cleanup: --clients
\* C32: in an explicit-role cleanup that runs to its end, every client serial
\* the operator gave, in whichever --clients option, was reconnected and
\* went through the client cleanup.
C32_EverySuppliedClientCleaned ==
    (pc = "done" /\ args.server_serial # NoSerial) =>
        \A k \in DOMAIN args.client_serials :
            \A s \in Range(args.client_serials[k]) :
                /\ Issued("reconnect_connect", s) >= 1
                /\ Issued("cleanup_hotspot", s) >= 1

\* ---------------------------------------- what detection hands to reconnect
\* C33: whenever detection goes on to reconnect_devices, the server serial
\* it passes is that of a device it classified, never None, and the client
\* list has total - 1 entries, for every positive total the entry point
\* accepts.
C33_DetectedServerIsADevice ==
    (InferRun /\ pc = "reconnect") =>
        /\ server_serial # NoSerial
        /\ server_serial \in detected_devices
        /\ Len(client_serials) = args.total_num_devices - 1

\* ------------------------------------------- detection after its first pass
\* C34: the listing is read once; the first pass connects to and classifies
\* every listed device; the later passes connect to nothing and classify
\* nothing, so when the stop condition does not hold after the first pass the
\* detector sleeps before each of the nine remaining passes and times out.
C34_DetectionFixedAfterFirstPass ==
    /\ []((Detecting /\ retries >= 1) =>
             /\ detected_devices = Range(devices)
             /\ Range(Examined) = Range(devices)
             /\ \A k \in Idx({"detect_connect"}) : ~Earlier({"sleep"}, k)
             /\ Len(OpsOf("sleep")) <= retries
             /\ (pc = "detect_after"
                     /\ Len(client_serials) + 1 # args.total_num_devices) =>
                    /\ DetectTimedOut(retries)
                    /\ Len(OpsOf("sleep")) = MaxRetries - 1)
    /\ [][/\ Detecting => devices' = devices
          /\ (Detecting /\ retries >= 1) =>
                 UNCHANGED <<server_serial, client_serials, detected_devices>>]_vars
C34_Witness ==
    /\ pc = "detect_after"
    /\ DetectTimedOut(retries)
    /\ Len(OpsOf("sleep")) = MaxRetries - 1
    /\ Len(Examined) >= 2
    /\ Len(client_serials) + 1 # args.total_num_devices

\* ------------------------------------------ reconnect_devices in one pass
DistinctPlan ==
    server_serial # NoSerial /\ Distinct(client_serials \o <<server_serial>>)

\* C35: with pairwise distinct client serials that all differ from the
\* server serial, reconnect_devices connects to the clients in list order and
\* then to the server, once each, and its loop ends after that one pass.
C35_ReconnectInOnePass ==
    /\ []((InReconnect /\ DistinctPlan) =>
             /\ IsPrefix(SerialsOf("reconnect_connect"),
                         client_serials \o <<server_serial>>)
             /\ reconnected_devices = Range(SerialsOf("reconnect_connect")))
    /\ []((ReconnectReturned /\ DistinctPlan) =>
             SerialsOf("reconnect_connect") = client_serials \o <<server_serial>>)
    /\ [][(pc = "rc_while" /\ reconnected_devices # {} /\ DistinctPlan) =>
              pc' = "cleanup"]_vars
C35_Witness ==
    /\ ReconnectReturned
    /\ DistinctPlan
    /\ Len(client_serials) >= 2
    /\ SerialsOf("reconnect_connect") = client_serials \o <<server_serial>>

\* --------------------------------------- ticsync_recording: inferred plan
\* C36: when ticsync_recording infers the roles, the plan it makes is the
\* listing itself: the first listed device is the server, the remaining
\* listed devices are the clients in listing order, each attached device
\* appears once, and the server and every client carry the shared profile.
C36_InferredPlanCoversListing ==
    [][(pc = "rec_main" /\ pc' = "rec_connect_server" /\ RecInferRun) =>
          /\ <<server_serial'>> \o
                 [k \in 1..Len(client_plan') |-> client_plan'[k].serial] = usb
          /\ Cardinality({server_serial'} \cup
                 {client_plan'[k].serial : k \in 1..Len(client_plan')})
                 = Cardinality(Attached)
          /\ Len(client_plan') = rec_args.total_num_devices - 1
          /\ server_profile_name' = rec_args.profile
          /\ \A k \in 1..Len(client_plan') :
                 client_plan'[k].profile = rec_args.profile]_vars
C36_Witness ==
    /\ pc = "rec_connect_server"
    /\ RecInferRun
    /\ Len(client_plan) >= 2
    /\ <<server_serial>> \o PlanSerials = usb
    /\ server_profile_name = rec_args.profile

\* ----------------------------------- ticsync_recording: the progress line
\* C38: the line printed when the server starts recording names the profile
\* assigned to the server, the one set on its recording config.
C38_ServerLineNamesServerProfile ==
    Idx({"start_server_recording"}) # {} =>
        printed_profile = server_profile_name

\* ------------------------------------------------- ticsync_file_manager
\* populate_files, lines 41-80: every attached device's recording with a
\* shared session id is entered, a server recording by assignment, a client
\* recording by append
RECURSIVE populate_files(_, _, _)
populate_files(files, listing, recs) ==
    IF listing = <<>> THEN files
    ELSE LET s == Head(listing)
             r == recs[s]
             f == IF r.mode = "server"
                  THEN [files EXCEPT !.server[r.session] = s]
                  ELSE IF r.mode = "client"
                  THEN [files EXCEPT !.client[r.session] = Append(@, s)]
                  ELSE files
         IN  populate_files(f, Tail(listing), recs)

\* the dictionaries after list_files, lines 85-88
list_files ==
    populate_files([server |-> ticsync_server_files,
                    client |-> ticsync_client_files], usb, recordings)

\* the session id given to --download
Requested == "sessA"
\* download_files, lines 133-134: the listing is made only if none is held
Held ==
    IF date_sorted_ticsync_server_recordings = NoFiles.server
    THEN list_files
    ELSE [server |-> date_sorted_ticsync_server_recordings,
          client |-> ticsync_client_files]
\* the download_vrs_file calls of lines 139-150, in order
Pulls(files) ==
    IF files.server[Requested] = NoSerial THEN <<>>
    ELSE <<Ev("download_server", files.server[Requested])>>
         \o [k \in 1..Len(files.client[Requested]) |->
                Ev("download_client", files.client[Requested][k])]

FmInit ==
    /\ pc = "fm"
    /\ InitLocals
    /\ usb \in Listings
    /\ args = [server_serial |-> NoSerial, client_serials |-> <<>>,
               total_num_devices |-> NoTotal]
    /\ dev = [s \in Serials |-> IdleDevice]
    /\ rec_args = NoRecArgs
    /\ client_plan = <<>>
    /\ server_profile_name = ""
    /\ profile_name = ""
    /\ printed_profile = ""
    /\ fn_path = ""
    /\ fn_runs = 0
    /\ fn_input = <<>>
    /\ fn_first = <<>>
    /\ recordings \in [Serials -> {[session |-> "", mode |-> ""],
                                   [session |-> "sessA", mode |-> "server"],
                                   [session |-> "sessA", mode |-> "client"],
                                   [session |-> "sessB", mode |-> "server"]}]
    /\ ticsync_server_files = NoFiles.server
    /\ ticsync_client_files = NoFiles.client
    /\ date_sorted_ticsync_server_recordings = NoFiles.server
    /\ fm_result = ""

ListFiles ==
    /\ pc = "fm"
    /\ fn_runs < MaxRuns
    /\ ticsync_server_files' = list_files.server
    /\ ticsync_client_files' = list_files.client
    /\ date_sorted_ticsync_server_recordings' = list_files.server
    /\ log' = Append(log, Ev("list_files", NoSerial))
    /\ fn_runs' = fn_runs + 1
    /\ UNCHANGED <<pc, error, args, dev, devices, main_devices, server_serial,
                   client_serials, detected_devices, retries, i,
                   server_device, client_devices, reconnected_devices,
                   server_hotspot_ssid, recVars, fn_path, fn_input, fn_first,
                   recordings, interrupts>>
    /\ UNCHANGED <<usb, plugs, fm_result>>

DownloadFiles ==
    /\ pc = "fm"
    /\ fn_runs < MaxRuns
    /\ ticsync_server_files' = Held.server
    /\ ticsync_client_files' = Held.client
    /\ date_sorted_ticsync_server_recordings' = Held.server
    /\ log' = log \o <<Ev("download_files", NoSerial)>> \o Pulls(Held)
    /\ fm_result' = IF Held.server[Requested] # NoSerial
                        /\ Held.client[Requested] # <<>>
                    THEN "True" ELSE "False"
    /\ fn_runs' = fn_runs + 1
    /\ UNCHANGED <<pc, error, args, dev, devices, main_devices, server_serial,
                   client_serials, detected_devices, retries, i,
                   server_device, client_devices, reconnected_devices,
                   server_hotspot_ssid, recVars, fn_path, fn_input, fn_first,
                   recordings, interrupts>>
    /\ UNCHANGED <<usb, plugs>>

\* a device is attached between two calls
FmAttach ==
    /\ pc = "fm"
    /\ plugs < MaxPlugEvents
    /\ \E s \in Serials \ Range(usb) : usb' = Append(usb, s)
    /\ plugs' = plugs + 1
    /\ UNCHANGED <<pc, error, args, dev, devices, main_devices, server_serial,
                   client_serials, detected_devices, retries, i,
                   server_device, client_devices, reconnected_devices,
                   server_hotspot_ssid, recVars, fn_path, fn_input, fn_first,
                   recordings, interrupts>>
    /\ UNCHANGED <<log, fn_runs, ticsync_server_files, ticsync_client_files,
                   date_sorted_ticsync_server_recordings, fm_result>>

SpecFiles == FmInit /\ [][ListFiles \/ DownloadFiles \/ FmAttach]_vars

\* the pulls of the last download_files call
LastPulls ==
    IF Idx({"download_files"}) = {} THEN <<>>
    ELSE LET m == CHOOSE k \in Idx({"download_files"}) :
                      \A j \in Idx({"download_files"}) : j <= k
         IN  SelectSeq(SubSeq(log, m + 1, Len(log)),
                       LAMBDA e : e.op \in {"download_server", "download_client"})

\* C37: download_files returns True only if a server recording and a client
\* recording of the session exist; without a server recording nothing is
\* downloaded; the server recording is downloaded first; every client
\* recording of the session that was listed is downloaded once, also after
\* earlier list_files calls.
C37_DownloadsEachFileOnce ==
    (fm_result # "" /\ log[Len(log)].op # "list_files") =>
        /\ fm_result = "True" =>
               \A mode \in {"server", "client"} : \E s \in Attached :
                   recordings[s] = [session |-> Requested, mode |-> mode]
        /\ (\A s \in Attached : recordings[s] #
                   [session |-> Requested, mode |-> "server"]) =>
               LastPulls = <<>>
        /\ \A k \in DOMAIN LastPulls :
               (LastPulls[k].op = "download_server") <=> (k = 1)
        /\ LastPulls # <<>> =>
               \A s \in Range(ticsync_client_files[Requested]) :
                   Cardinality({k \in DOMAIN LastPulls :
                       LastPulls[k] = Ev("download_client", s)}) = 1

====
